---- MODULE Spec2Model ----
(***************************************************************************)
(* Signal-analysis engine of the trading bot: EnhancedSessionRangeAnalyzer *)
(* (src/indicator_analyzer.py) as driven by EnhancedTradingBot             *)
(* (src/bot.py), with the session hours of Config (src/config.py).         *)
(*                                                                         *)
(* Number representation.  Prices are integers in half-dollars (190 is     *)
(* $95.00); bar highs and lows are even, so (high + low) / 2 is exact.     *)
(* Volumes are multiples of 12, so the mean of up to four of them is       *)
(* exact.  Factor weights are hundredths (0.40 is 40), so the weighted     *)
(* confidence is held in hundredths of a point (7325 is 73.25).  The mean  *)
(* of the factor scores is held in sixtieths of a point (3300 is 55.0),    *)
(* exact for the 3, 4 or 5 scores the classifier can collect.  A float     *)
(* that may be NaN (a talib output) is a record [nan, v].                  *)
(*                                                                         *)
(* The option selector and the risk calculator take prices and strikes in  *)
(* cents, deltas in hundredths, thetas in thousandths, ivRank in whole     *)
(* points and the confidence in hundredths of a point.  Dates are day      *)
(* numbers and the clock counts half-days, so that a time of day other     *)
(* than midnight exists.  Arithmetic is exact.  Where the program rounds   *)
(* an exact half or compares two equal exact values, the binary floats     *)
(* next to them decide, so the functions below return the set of values    *)
(* the program can produce and a call takes any one of them.               *)
(***************************************************************************)
EXTENDS Integers, Sequences, FiniteSets, TLC

VARIABLES
    df,             \* hist: the bar series fetched for the request, oldest first
    session_data,   \* the dict calculate_session_ranges returned
    current_price,  \* the live quote handed to determine_direction
    signal,         \* what determine_direction returned
    pc,             \* position in the request: "fetch", "analyzed", "classified";
                    \* "idle", "returned" around a call of the option selector
                    \* or the risk calculator
    now,            \* datetime.now(), in half-days since the reference midnight
    call,           \* the arguments of the last option_picker / calculate_tp_sl call
    result,         \* what that call returned, or the error it raised
    log,            \* the requests served so far by the one analyzer instance
    messages,       \* the bot's messages in the chat, each with its inline keyboard
    confirmed,      \* the contracts confirm_trade has shown a confirmation screen for
    placed          \* the contracts place_trade was invoked for

vars == <<df, session_data, current_price, signal, pc, now, call, result, log,
          messages, confirmed, placed>>

\* the variables of the classifier pipeline, and the others
pipeline == <<df, session_data, current_price, signal>>
engine == <<now, call, result, log>>
chat == <<messages, confirmed, placed>>

\* ------------------------------------------------------------------ bounds

\* longest bar series fetched
MaxBars == 2
\* last clock reading, in half-days
MaxClock == 2
\* every price from one cent to this many cents is tried
MaxSmallSpot == 110
\* most /status requests in flight or answered
MaxRequests == 2
\* most messages the bot has sent to the chat
MaxMessages == 2

\* ------------------------------------------------------- program constants

\* Config.SESSION_TIMES
asian_start == 20
asian_end == 2
london_start == 3
london_end == 7
ny_start == 8
ny_end == 12

\* determine_direction: label thresholds on the mean score, and the clamp
CALL_THRESHOLD == 55
PUT_THRESHOLD == 45
CONFIDENCE_CAP == 100

\* scale of the mean of the factor scores: sixtieths (3, 4 or 5 scores)
MeanScale == 3 * 4 * 5
\* scale of the weights and of the weighted confidence: hundredths
WeightScale == 10 * 10

\* ------------------------------------------------------------------ floats

NaN == [nan |-> TRUE, v |-> 0]
Num(x) == [nan |-> FALSE, v |-> x]
\* x > c for a float x: every comparison with NaN is False
FGt(x, c) == ~x.nan /\ x.v > c

\* --------------------------------------------------------------- bar series

Hours == 0 .. 23
SessionNames == {"asian", "london", "ny"}

Bar(h, hi, lo, vol) == [hour |-> h, High |-> hi, Low |-> lo, Volume |-> vol]

\* the bars of the session-range runs: every hour of the day
SessionBars ==
    { Bar(h, p[1], p[2], 12) : h \in Hours, p \in {<<200, 190>>, <<210, 200>>} }

\* the bars of the classifier runs: one Asian hour and one New York hour
PipelineBars ==
    { Bar(h, p[1], p[2], vol) :
        h \in {21, 9}, p \in {<<210, 190>>, <<200, 200>>}, vol \in {0, 12, 24} }

\* live quotes (regularMarketPrice), in half-dollars
SpotPrices == {188, 195, 200, 205, 212}

\* ------------------------------------------------ calculate_session_ranges

\* faulty variant: the wrapping window tested as a plain range
asian_mask_mut(h) == h >= 20 /\ h < 2
\* the three boolean masks over df_est['hour']
asian_mask(h) == h >= 20 \/ h < 2
london_mask(h) == h >= 3 /\ h < 7
ny_mask(h) == h >= 8 /\ h < 12

Mask(s, h) ==
    CASE s = "asian" -> asian_mask(h)
      [] s = "london" -> london_mask(h)
      [] s = "ny" -> ny_mask(h)

\* df_est[mask]
Select(d, s) == SelectSeq(d, LAMBDA b : Mask(s, b.hour))

\* any(mask)
AnyMask(d, s) == \E i \in DOMAIN d : Mask(s, d[i].hour)

RECURSIVE ColMax(_), ColMin(_), ColSum(_)
\* Series.max()
ColMax(xs) ==
    IF Len(xs) = 1 THEN xs[1]
    ELSE LET m == ColMax(Tail(xs)) IN IF xs[1] > m THEN xs[1] ELSE m
\* Series.min()
ColMin(xs) ==
    IF Len(xs) = 1 THEN xs[1]
    ELSE LET m == ColMin(Tail(xs)) IN IF xs[1] < m THEN xs[1] ELSE m
ColSum(xs) == IF xs = <<>> THEN 0 ELSE xs[1] + ColSum(Tail(xs))
\* Series.mean()
ColMean(xs) == ColSum(xs) \div Len(xs)

Column(d, c) == [i \in DOMAIN d |-> d[i][c]]

\* faulty variant: the range taken against the highest low
SessionStats_mut(sdf) ==
    [high |-> ColMax(Column(sdf, "High")),
     low |-> ColMin(Column(sdf, "Low")),
     range |-> ColMax(Column(sdf, "High")) - ColMax(Column(sdf, "Low")),
     mid |-> (ColMax(Column(sdf, "High")) + ColMin(Column(sdf, "Low"))) \div 2,
     volume |-> ColMean(Column(sdf, "Volume"))]
\* the dict stored under results['sessions'][name]
SessionStats(sdf) ==
    [high |-> ColMax(Column(sdf, "High")),
     low |-> ColMin(Column(sdf, "Low")),
     range |-> ColMax(Column(sdf, "High")) - ColMin(Column(sdf, "Low")),
     mid |-> (ColMax(Column(sdf, "High")) + ColMin(Column(sdf, "Low"))) \div 2,
     volume |-> ColMean(Column(sdf, "Volume"))]

\* the sessions whose `if any(mask)` branch runs
Populated(d) == { s \in SessionNames : AnyMask(d, s) }

\* faulty variant: a session without bars stored with zero values
Sessions_mut(d) ==
    [s \in SessionNames |->
        IF AnyMask(d, s) THEN SessionStats(Select(d, s))
        ELSE [high |-> 0, low |-> 0, range |-> 0, mid |-> 0, volume |-> 0]]
\* results['sessions']
Sessions(d) == [s \in Populated(d) |-> SessionStats(Select(d, s))]

\* talib on a series shorter than every lookback (14, 20, 26 + 9, 50): all NaN,
\* and SMA20 > SMA50 is False
ShortSeriesMomentum ==
    { [rsi |-> NaN, macd_hist |-> NaN, trend |-> "BEARISH"] }

\* talib on a series of any length: RSI in [0, 100] or NaN, the MACD histogram
\* of either sign, zero or NaN, the trend either way.  The indicators depend
\* on up to 50 closes, far more bars than a modelled series holds, so the
\* classifier runs take them as any value talib can return (one per branch
\* of the classifier and per branch boundary).
AnyMomentum ==
    { [rsi |-> r, macd_hist |-> m, trend |-> t] :
        r \in {NaN, Num(30), Num(50), Num(70), Num(75)},
        m \in {NaN, Num(-1), Num(0), Num(1)},
        t \in {"BULLISH", "BEARISH"} }

\* the dict calculate_session_ranges returns (the fields the classifier reads)
Results(d, m) ==
    [sessions |-> Sessions(d), volume |-> d[Len(d)].Volume, momentum |-> m]

\* ------------------------------------------------------ determine_direction

Scored(score, reason) == <<[score |-> score, reason |-> reason]>>

\* faulty variant: a breakout above the Asian high scored like the upper range
PositionFactor_mut(price, sessions) ==
    IF "asian" \in DOMAIN sessions
    THEN LET asian_high == sessions["asian"].high
             asian_low == sessions["asian"].low
             asian_mid == sessions["asian"].mid
         IN  IF price > asian_high THEN Scored(60, "Price above Asian high")
             ELSE IF price > asian_mid THEN Scored(60, "Price in upper Asian range")
             ELSE IF price < asian_low THEN Scored(20, "Price below Asian low")
             ELSE IF price < asian_mid THEN Scored(40, "Price in lower Asian range")
             ELSE <<>>
    ELSE <<>>
\* Factor 1: price vs the Asian session range
PositionFactor(price, sessions) ==
    IF "asian" \in DOMAIN sessions
    THEN LET asian_high == sessions["asian"].high
             asian_low == sessions["asian"].low
             asian_mid == sessions["asian"].mid
         IN  IF price > asian_high THEN Scored(80, "Price above Asian high")
             ELSE IF price > asian_mid THEN Scored(60, "Price in upper Asian range")
             ELSE IF price < asian_low THEN Scored(20, "Price below Asian low")
             ELSE IF price < asian_mid THEN Scored(40, "Price in lower Asian range")
             ELSE <<>>
    ELSE <<>>

\* Factor 2: RSI
RsiFactor(rsi) ==
    IF FGt(rsi, 70) THEN Scored(30, "RSI overbought")
    ELSE IF FGt(rsi, 50) THEN Scored(60, "RSI bullish")
    ELSE IF FGt(rsi, 30) THEN Scored(40, "RSI bearish")
    ELSE Scored(70, "RSI oversold")

\* Factor 3: MACD histogram
MacdFactor(macd_hist) ==
    IF FGt(macd_hist, 0) THEN Scored(65, "MACD bullish")
    ELSE Scored(35, "MACD bearish")

\* Factor 4: trend
TrendFactor(trend) ==
    IF trend = "BULLISH" THEN Scored(70, "Uptrend (SMA20 > SMA50)")
    ELSE Scored(30, "Downtrend (SMA20 < SMA50)")

\* volume_ratio > 1.5 and volume_ratio > 1.0, with
\* volume_ratio = current_volume / asian_volume if asian_volume > 0 else 1
RatioAbove15(current_volume, asian_volume) ==
    asian_volume > 0 /\ 2 * current_volume > 3 * asian_volume
RatioAbove10(current_volume, asian_volume) ==
    asian_volume > 0 /\ current_volume > asian_volume

VolumeScore(current_volume, asian_volume) ==
    IF RatioAbove15(current_volume, asian_volume) THEN Scored(70, "High volume")
    ELSE IF RatioAbove10(current_volume, asian_volume) THEN Scored(55, "Average volume")
    ELSE Scored(40, "Low volume")

\* faulty variant: a missing Asian session read as an Asian volume of 0
VolumeFactor_mut(data) ==
    IF "asian" \in DOMAIN data.sessions
    THEN VolumeScore(data.volume, data.sessions["asian"].volume)
    ELSE VolumeScore(data.volume, 0)
\* Factor 5: volume against the Asian mean
VolumeFactor(data) ==
    IF "asian" \in DOMAIN data.sessions
    THEN VolumeScore(data.volume, data.sessions["asian"].volume)
    ELSE <<>>

\* the entries appended to confidence_factors and reasoning, in order
Factors(price, data, momentum) ==
    PositionFactor(price, data.sessions) \o RsiFactor(momentum.rsi)
        \o MacdFactor(momentum.macd_hist) \o TrendFactor(momentum.trend)
        \o VolumeFactor(data)

\* faulty variant: the first two weights swapped
weights_mut == <<20, 40, 15, 15, 10>>
\* weights = [0.40, 0.20, 0.15, 0.15, 0.10], in hundredths
weights == <<40, 20, 15, 15, 10>>

\* [cf * w for cf, w in zip(confidence_factors, weights)]
weighted_confidences(confidence_factors) ==
    [i \in 1 .. (IF Len(confidence_factors) < Len(weights)
                 THEN Len(confidence_factors) ELSE Len(weights))
        |-> confidence_factors[i] * weights[i]]

\* np.mean(confidence_factors), in sixtieths
avg_confidence(confidence_factors) ==
    (ColSum(confidence_factors) * MeanScale) \div Len(confidence_factors)

\* faulty variant: a mean of exactly 55 labelled CALL
Label_mut(avg) ==
    IF avg >= CALL_THRESHOLD * MeanScale THEN <<"CALL", "BULLISH">>
    ELSE IF avg < PUT_THRESHOLD * MeanScale THEN <<"PUT", "BEARISH">>
    ELSE <<"NEUTRAL", "NEUTRAL">>
\* direction and trade_type from the mean score
Label(avg) ==
    IF avg > CALL_THRESHOLD * MeanScale THEN <<"CALL", "BULLISH">>
    ELSE IF avg < PUT_THRESHOLD * MeanScale THEN <<"PUT", "BEARISH">>
    ELSE <<"NEUTRAL", "NEUTRAL">>

\* faulty variant: the confidence rescaled as if it were a fraction
ClampConfidence_mut(confidence) == confidence * 100
\* min(confidence, 100), in hundredths
ClampConfidence(confidence) ==
    IF confidence < CONFIDENCE_CAP * WeightScale THEN confidence
    ELSE CONFIDENCE_CAP * WeightScale

\* the tuple determine_direction returns, with its local confidence_factors
determine_direction(price, data, momentum) ==
    LET fs == Factors(price, data, momentum)
        confidence_factors == [i \in DOMAIN fs |-> fs[i].score]
        reasoning == [i \in DOMAIN fs |-> fs[i].reason]
        confidence == ColSum(weighted_confidences(confidence_factors))
        label == Label(avg_confidence(confidence_factors))
    IN  [direction |-> label[1],
         confidence |-> ClampConfidence(confidence),
         trade_type |-> label[2],
         reasoning |-> reasoning,
         confidence_factors |-> confidence_factors]

\* ---------------------------------------------------------------- rounding

Abs(x) == IF x < 0 THEN -x ELSE x

\* round(n / d) for d > 0 to the nearest integer, an exact half going to the
\* upper neighbour when `up`
RoundHalf(n, d, up) ==
    LET q == n \div d
        r == n % d
    IN  IF 2 * r < d THEN q
        ELSE IF 2 * r > d THEN q + 1
        ELSE IF up THEN q + 1 ELSE q

\* the values round(n / d) can take: both neighbours of an exact half
RoundDiv(n, d) == { RoundHalf(n, d, up) : up \in BOOLEAN }

\* a < b on floats whose exact values are a and b: decided when they differ,
\* either way when they coincide
FloatLess(a, b) == IF a = b THEN BOOLEAN ELSE {a < b}

\* --------------------------------------------------------- _days_to_expiry

\* max((expiry_date - datetime.now()).days, 1): expiry_date is the midnight
\* that starts day `expiration`, timedelta.days is the floor
days_to_expiry(expiration, clock) ==
    LET days == (2 * expiration - clock) \div 2
    IN  IF days > 1 THEN days ELSE 1

\* -------------------------------------------------- calculate_option_delta

\* moneyness = spot / strike against a threshold of t hundredths, strike # 0
MoneynessAbove(spot, strike, t) ==
    IF strike > 0 THEN FloatLess(t * strike, 100 * spot)
    ELSE FloatLess(100 * spot, t * strike)
MoneynessBelow(spot, strike, t) ==
    IF strike > 0 THEN FloatLess(100 * spot, t * strike)
    ELSE FloatLess(t * strike, 100 * spot)

\* faulty variant: the put buckets read in the call's order
PutBase_mut(spot, strike) ==
    IF TRUE \in MoneynessAbove(spot, strike, 105) THEN {-85}
    ELSE IF TRUE \in MoneynessAbove(spot, strike, 102) THEN {-65}
    ELSE IF TRUE \in MoneynessAbove(spot, strike, 98) THEN {-50}
    ELSE IF TRUE \in MoneynessAbove(spot, strike, 95) THEN {-35}
    ELSE {-20}
\* the if / elif chain of the put branch, in hundredths: a bucket is taken
\* when every earlier test can fail and its own can succeed
PutBase(spot, strike) ==
    LET below(t) == MoneynessBelow(spot, strike, t)
    IN  { b \in {-85, -65, -50, -35, -20} :
            \/ b = -85 /\ TRUE \in below(95)
            \/ b = -65 /\ FALSE \in below(95) /\ TRUE \in below(98)
            \/ b = -50 /\ FALSE \in below(98) /\ TRUE \in below(102)
            \/ b = -35 /\ FALSE \in below(102) /\ TRUE \in below(105)
            \/ b = -20 /\ FALSE \in below(105) }

\* the if / elif chain of the call branch
CallBase(spot, strike) ==
    LET above(t) == MoneynessAbove(spot, strike, t)
    IN  { b \in {85, 65, 50, 35, 20} :
            \/ b = 85 /\ TRUE \in above(105)
            \/ b = 65 /\ FALSE \in above(105) /\ TRUE \in above(102)
            \/ b = 50 /\ FALSE \in above(102) /\ TRUE \in above(98)
            \/ b = 35 /\ FALSE \in above(98) /\ TRUE \in above(95)
            \/ b = 20 /\ FALSE \in above(95) }

\* round(delta * (1 + (iv_rank - 50) / 200), 2), in hundredths; strike # 0.
\* The product depends on the bucket and iv_rank only, so the calls of one
\* request round an exact half the same way
calculate_option_delta(spot, strike, is_call, iv_rank, up) ==
    { RoundHalf(b * (150 + iv_rank), 200, up) :
        b \in IF is_call THEN CallBase(spot, strike) ELSE PutBase(spot, strike) }

\* -------------------------------------------------- calculate_option_theta

\* faulty variant: the two shorter buckets swapped
BaseTheta_mut(time_to_expiry) ==
    IF time_to_expiry < 7 THEN -30
    ELSE IF time_to_expiry < 14 THEN -50
    ELSE -20
\* the base theta of the days-to-expiry bucket, in thousandths
BaseTheta(time_to_expiry) ==
    IF time_to_expiry < 7 THEN -50
    ELSE IF time_to_expiry < 14 THEN -30
    ELSE -20

\* round(theta * (1 + (iv_rank - 50) / 100), 3), in thousandths
calculate_option_theta(time_to_expiry, iv_rank) ==
    RoundDiv(BaseTheta(time_to_expiry) * (50 + iv_rank), 100)

\* -------------------------------------------------------- estimate_premium

\* round(|spot| * 0.02 * (time_to_expiry / 30) ** 0.5) in cents: the n with
\* (n - 1/2)^2 <= spot^2 * time_to_expiry / 75000 <= (n + 1/2)^2
RoundExtrinsic(spot, time_to_expiry) ==
    LET x == 4 * spot * spot * time_to_expiry
    IN  { n \in 0 .. (Abs(spot) \div 50 + 1) :
            /\ n > 0 => (2 * n - 1) * (2 * n - 1) * 75000 <= x
            /\ x <= (2 * n + 1) * (2 * n + 1) * 75000 }

\* round(intrinsic + extrinsic, 2), in cents
estimate_premium(spot, strike, time_to_expiry, is_call) ==
    LET intrinsic ==
            IF is_call THEN (IF spot - strike > 0 THEN spot - strike ELSE 0)
            ELSE (IF strike - spot > 0 THEN strike - spot ELSE 0)
    IN  { IF spot >= 0 THEN intrinsic + e ELSE intrinsic - e :
            e \in RoundExtrinsic(spot, time_to_expiry) }

\* ----------------------------------------------------------- option_picker

\* the strike multipliers, in hundredths
CallStrikes == <<101, 102, 105>>
PutStrikes == <<99, 98, 95>>

\* faulty variant: the strike truncated to whole cents
RoundStrike_mut(spot, mult) == {(spot * mult) \div 100}
\* round(current_price * mult, 2)
RoundStrike(spot, mult) == RoundDiv(spot * mult, 100)

\* 'MODERATE' if strike <= current_price * 1.02 (calls), if strike >=
\* current_price * 0.98 (puts), else 'AGGRESSIVE'
RiskLevel(is_call, strike, spot, mult) ==
    LET beyond == IF is_call THEN FloatLess(102 * spot, 100 * strike)
                  ELSE FloatLess(100 * strike, 98 * spot)
    IN  { IF x THEN "AGGRESSIVE" ELSE "MODERATE" : x \in beyond }

\* the dicts that can be appended for one strike
Candidate(is_call, spot, strike, mult, time_to_expiry, iv_rank, theta, up) ==
    { [type |-> IF is_call THEN "CALL" ELSE "PUT",
       strike |-> strike,
       delta |-> delta,
       theta |-> theta,
       risk_level |-> risk_level,
       description |->
          IF is_call
          THEN (IF strike < spot THEN "ITM Call" ELSE "OTM Call")
          ELSE (IF strike > spot THEN "ITM Put" ELSE "OTM Put"),
       premium_estimate |-> premium] :
        delta \in calculate_option_delta(spot, strike, is_call, iv_rank, up),
        risk_level \in RiskLevel(is_call, strike, spot, mult),
        premium \in estimate_premium(spot, strike, time_to_expiry, is_call) }

RECURSIVE InsertByDelta(_, _)
\* x placed after every entry whose |delta| is at least its own
InsertByDelta(sorted, x) ==
    IF sorted = <<>> THEN <<x>>
    ELSE IF Abs(sorted[1].delta) >= Abs(x.delta)
         THEN <<sorted[1]>> \o InsertByDelta(Tail(sorted), x)
         ELSE <<x>> \o sorted

RECURSIVE SortByDelta_mut(_)
\* faulty variant: the order of the list reversed instead of sorted
SortByDelta_mut(options) ==
    IF options = <<>> THEN <<>>
    ELSE SortByDelta_mut(Tail(options)) \o <<options[1]>>
RECURSIVE SortByDelta(_)
\* options.sort(key=lambda x: abs(x['delta']), reverse=True): stable
SortByDelta(options) ==
    IF options = <<>> THEN <<>>
    ELSE InsertByDelta(SortByDelta(SubSeq(options, 1, Len(options) - 1)),
                       options[Len(options)])

Raised(error) == [error |-> error, value |-> <<>>]
Returned(value) == [error |-> "", value |-> value]

\* the lists returned for three rounded strikes: spot / strike raises
\* ZeroDivisionError when a strike is 0; the three thetas are one value
Picked(is_call, spot, strikes, mults, time_to_expiry, iv_rank) ==
    LET options(k, theta, up) ==
            Candidate(is_call, spot, strikes[k], mults[k], time_to_expiry, iv_rank,
                      theta, up)
    IN  IF \E k \in 1 .. 3 : strikes[k] = 0 THEN {Raised("ZeroDivisionError")}
        ELSE UNION { { Returned(SubSeq(SortByDelta(<<c1, c2, c3>>), 1, 3)) :
                         c1 \in options(1, theta, up), c2 \in options(2, theta, up),
                         c3 \in options(3, theta, up) } :
                     theta \in calculate_option_theta(time_to_expiry, iv_rank),
                     up \in BOOLEAN }

\* what option_picker can return, or raise, at clock reading `clock`
option_picker(direction, spot, expiration, iv_rank, clock) ==
    LET time_to_expiry == days_to_expiry(expiration, clock)
        is_call == direction = "CALL"
        mults == IF is_call THEN CallStrikes ELSE PutStrikes
    IN  IF direction \notin {"CALL", "PUT"} THEN {Returned(<<>>)}
        ELSE UNION { Picked(is_call, spot, strikes, mults, time_to_expiry, iv_rank) :
                       strikes \in RoundStrike(spot, mults[1])
                                   \X RoundStrike(spot, mults[2])
                                   \X RoundStrike(spot, mults[3]) }

\* --------------------------------------------------------- calculate_tp_sl

\* stop_loss_pct = 0.03 - 0.01 * confidence / 100, times 1.5 when the option
\* type matches the direction: a fraction num / den
StopLossPct(confidence, widened) ==
    IF widened THEN [num |-> 3 * (30000 - confidence), den |-> 2000000]
    ELSE [num |-> 30000 - confidence, den |-> 1000000]

\* take_profit_pct = 0.06 + 0.02 * confidence / 100, times 1.2 when widened
TakeProfitPct(confidence, widened) ==
    IF widened THEN [num |-> 6 * (30000 + confidence), den |-> 2500000]
    ELSE [num |-> 30000 + confidence, den |-> 500000]

\* round(spot * (1 + sign * pct), 2): spot is a whole number of cents, so
\* only spot * pct is rounded
Level(spot, sign, pct) == { spot + sign * x : x \in RoundDiv(spot * pct.num, pct.den) }

\* round(max(stop_loss, 0.01), 2): the floor at one cent commutes with the
\* rounding to whole cents
FloorStop(stop_loss) == IF stop_loss > 1 THEN stop_loss ELSE 1

\* the dict calculate_tp_sl returns for the rounded levels; risk_reward is the
\* fraction num / den, and the division raises ZeroDivisionError when the
\* stop is the price
Levels(spot, stop_loss, take_profit) ==
    IF spot = stop_loss THEN Raised("ZeroDivisionError")
    ELSE Returned([stop_loss |-> stop_loss,
                   take_profit |-> take_profit,
                   risk_reward |-> [num |-> Abs(take_profit - spot),
                                    den |-> Abs(spot - stop_loss)]])

\* faulty variant: the stop placed two ATRs from the price for the long side
calculate_tp_sl_mut(spot, direction, atr, confidence, option_type) ==
    LET bullish == direction \in {"CALL", "BULLISH"}
        bearish == direction \in {"PUT", "BEARISH"}
        widened == \/ bullish /\ option_type = "CALL"
                   \/ bearish /\ option_type = "PUT"
        sl_pct == StopLossPct(confidence, widened)
        tp_pct == TakeProfitPct(confidence, widened)
        neutral_pct == [num |-> 3, den |-> 100]
        stops ==
            IF bullish THEN {spot - 2 * atr}
            ELSE IF bearish THEN Level(spot, 1, sl_pct)
            ELSE Level(spot, -1, neutral_pct)
        takes ==
            IF bullish THEN Level(spot, 1, tp_pct)
            ELSE IF bearish THEN Level(spot, -1, tp_pct)
            ELSE Level(spot, 1, neutral_pct)
    IN  { Levels(spot, FloorStop(stop), take) : stop \in stops, take \in takes }
\* what calculate_tp_sl can return, or raise; atr is never read
calculate_tp_sl(spot, direction, atr, confidence, option_type) ==
    LET bullish == direction \in {"CALL", "BULLISH"}
        bearish == direction \in {"PUT", "BEARISH"}
        widened == \/ bullish /\ option_type = "CALL"
                   \/ bearish /\ option_type = "PUT"
        sl_pct == StopLossPct(confidence, widened)
        tp_pct == TakeProfitPct(confidence, widened)
        neutral_pct == [num |-> 3, den |-> 100]
        stops ==
            IF bullish THEN Level(spot, -1, sl_pct)
            ELSE IF bearish THEN Level(spot, 1, sl_pct)
            ELSE Level(spot, -1, neutral_pct)
        takes ==
            IF bullish THEN Level(spot, 1, tp_pct)
            ELSE IF bearish THEN Level(spot, -1, tp_pct)
            ELSE Level(spot, 1, neutral_pct)
    IN  { Levels(spot, FloorStop(stop), take) : stop \in stops, take \in takes }

\* ------------------------------------------------------------------- state

NoData ==
    [sessions |-> <<>>, volume |-> 0,
     momentum |-> [rsi |-> NaN, macd_hist |-> NaN, trend |-> "BEARISH"]]
NoSignal ==
    [direction |-> "", confidence |-> 0, trade_type |-> "", reasoning |-> <<>>,
     confidence_factors |-> <<>>]

\* the inputs of the option selector and the risk calculator
OptionSpots ==
    (1 .. MaxSmallSpot) \cup {50, 75, 100, 130, 150, 1000, 1030} \cup {0, -100}
Directions == {"CALL", "PUT", "BULLISH", "BEARISH", "NEUTRAL"}
Expirations == {0, 3, 7, 14, 30}
IvRanks == {0, 50, 51, 100}
Confidences == {0, 2500, 5175, 10000}
OptionTypes == {"None", "CALL", "PUT"}
Atrs == {0, 150}

Call(fn, direction, spot, expiration, iv_rank, atr, confidence, option_type) ==
    [fn |-> fn, direction |-> direction, spot |-> spot, expiration |-> expiration,
     iv_rank |-> iv_rank, atr |-> atr, confidence |-> confidence,
     option_type |-> option_type]
NoCall == Call("", "", 0, 0, 0, 0, 0, "None")
NoResult == [error |-> "", value |-> <<>>]

Init ==
    /\ df = <<>>
    /\ session_data = NoData
    /\ current_price = 0
    /\ signal = NoSignal
    /\ pc = "fetch"
    /\ now = 0
    /\ call = NoCall
    /\ result = NoResult
    /\ log = <<>>
    /\ messages = <<>>
    /\ confirmed = {}
    /\ placed = {}

\* yfinance history(): one more 15-minute bar of the series
FetchBar(b) ==
    /\ pc = "fetch"
    /\ Len(df) < MaxBars
    /\ df' = Append(df, b)
    /\ UNCHANGED <<session_data, current_price, signal, pc>>
    /\ UNCHANGED engine
    /\ UNCHANGED chat

\* status_command / pick_command: `if hist.empty: return`, then the analyzer
CalculateSessionRanges(m) ==
    /\ pc = "fetch"
    /\ df # <<>>
    /\ session_data' = Results(df, m)
    /\ pc' = "analyzed"
    /\ UNCHANGED <<df, current_price, signal>>
    /\ UNCHANGED engine
    /\ UNCHANGED chat

\* status_command / pick_command: the live quote, then the classifier
DetermineDirection(price) ==
    /\ pc = "analyzed"
    /\ current_price' = price
    /\ signal' = determine_direction(price, session_data, session_data.momentum)
    /\ pc' = "classified"
    /\ UNCHANGED <<df, session_data>>
    /\ UNCHANGED engine
    /\ UNCHANGED chat

\* session-range runs: short series over every hour of the day
SessionsNext ==
    \/ \E b \in SessionBars : FetchBar(b)
    \/ \E m \in ShortSeriesMomentum : CalculateSessionRanges(m)

SpecSessions == Init /\ [][SessionsNext]_vars

\* classifier runs: the request pipeline up to the signal
Next ==
    \/ \E b \in PipelineBars : FetchBar(b)
    \/ \E m \in AnyMomentum : CalculateSessionRanges(m)
    \/ \E price \in SpotPrices : DetermineDirection(price)

Spec == Init /\ [][Next]_vars

\* ------------------------------------------- option selector, risk levels

\* the analyzer built, no call in progress
InitOptions ==
    /\ df = <<>>
    /\ session_data = NoData
    /\ current_price = 0
    /\ signal = NoSignal
    /\ pc = "idle"
    /\ now = 0
    /\ call = NoCall
    /\ result = NoResult
    /\ log = <<>>
    /\ messages = <<>>
    /\ confirmed = {}
    /\ placed = {}

\* half a day passes
Tick ==
    /\ pc = "idle"
    /\ now < MaxClock
    /\ now' = now + 1
    /\ UNCHANGED <<pipeline, pc, call, result, log>>
    /\ UNCHANGED chat

OptionPicker(direction, spot, expiration, iv_rank) ==
    /\ pc = "idle"
    /\ call' = Call("option_picker", direction, spot, expiration, iv_rank, 0, 0,
                    "None")
    /\ result' \in option_picker(direction, spot, expiration, iv_rank, now)
    /\ pc' = "returned"
    /\ UNCHANGED <<pipeline, now, log>>
    /\ UNCHANGED chat

CalculateTpSl(spot, direction, atr, confidence, option_type) ==
    /\ pc = "idle"
    /\ call' = Call("calculate_tp_sl", direction, spot, 0, 0, atr, confidence,
                    option_type)
    /\ result' \in calculate_tp_sl(spot, direction, atr, confidence, option_type)
    /\ pc' = "returned"
    /\ UNCHANGED <<pipeline, now, log>>
    /\ UNCHANGED chat

\* the caller has consumed the result
Return ==
    /\ pc = "returned"
    /\ pc' = "idle"
    /\ call' = NoCall
    /\ result' = NoResult
    /\ UNCHANGED <<pipeline, now, log>>
    /\ UNCHANGED chat

\* a call is made between two others: the inputs are enumerated in idle
\* states only
OptionsNext ==
    \/ Tick
    \/ /\ pc = "idle"
       /\ \E direction \in Directions, spot \in OptionSpots,
             expiration \in Expirations, iv_rank \in IvRanks :
               OptionPicker(direction, spot, expiration, iv_rank)
    \/ /\ pc = "idle"
       /\ \E spot \in OptionSpots, direction \in Directions, atr \in Atrs,
             confidence \in Confidences, option_type \in OptionTypes :
               CalculateTpSl(spot, direction, atr, confidence, option_type)
    \/ Return

SpecOptions == InitOptions /\ [][OptionsNext]_vars

\* ---------------------------------------------------------- /status requests

\* the snapshots a request can fetch: a bar series (too short for any
\* indicator), a live quote in half-dollars and the next expiration
RequestSeries ==
    { <<Bar(21, 22, 18, 12)>>, <<Bar(21, 22, 18, 12), Bar(9, 24, 20, 24)>> }
RequestSpots == {16, 24}
RequestExpirations == {7, 14}

\* a price of the classifier, in half-dollars, as cents
Cents(price) == 50 * price

\* a request that has sent its loading message and awaits its turn
Loading ==
    [stage |-> "loading", bars |-> <<>>, spot |-> 0, expiration |-> 0, clock |-> 0,
     direction |-> "", confidence |-> 0, options |-> NoResult, levels |-> NoResult]

\* what the computation of status_command can hand to the reply for one
\* snapshot at one clock reading, over the ways the floats can round: an
\* exception of option_picker ends the request before calculate_tp_sl
Replies(bars, spot, expiration, clock) ==
    LET m == CHOOSE x \in ShortSeriesMomentum : TRUE
        data == Results(bars, m)
        sig == determine_direction(spot, data, data.momentum)
        option_type == IF sig.direction # "NEUTRAL" THEN sig.direction ELSE "None"
    IN  { [stage |-> "replied", bars |-> bars, spot |-> spot,
           expiration |-> expiration, clock |-> clock,
           direction |-> sig.direction, confidence |-> sig.confidence,
           options |-> o, levels |-> IF o.error = "" THEN l ELSE NoResult] :
            o \in option_picker(sig.direction, Cents(spot), expiration, 50, clock),
            l \in calculate_tp_sl(Cents(spot), sig.direction, 0, sig.confidence,
                                  option_type) }

\* faulty variant: the analyzer counts the requests it has served on the
\* instance and ages the clock by a day for each
Analysis_mut(bars, spot, expiration, clock) ==
    LET served == Cardinality({ i \in DOMAIN log : log[i].stage = "replied" })
        r == CHOOSE x \in Replies(bars, spot, expiration, clock + 2 * served) : TRUE
    IN  [r EXCEPT !.clock = clock]
\* the reply computed for one snapshot at one clock reading.  The analyzer
\* keeps nothing between calls, and float arithmetic is a function: equal
\* operands round and compare the same way, whichever way that is
Analysis(bars, spot, expiration, clock) ==
    CHOOSE r \in Replies(bars, spot, expiration, clock) : TRUE

\* /status arrives: the handler sends the loading message and yields
StatusCommand ==
    /\ pc = "idle"
    /\ Len(log) < MaxRequests
    /\ log' = Append(log, Loading)
    /\ UNCHANGED <<pipeline, pc, now, call, result>>
    /\ UNCHANGED chat

\* request i resumes: it fetches its snapshot and computes its reply without
\* yielding
Analyze(i, bars, spot, expiration) ==
    /\ pc = "idle"
    /\ i \in DOMAIN log
    /\ log[i].stage = "loading"
    /\ log' = [log EXCEPT ![i] = Analysis(bars, spot, expiration, now)]
    /\ UNCHANGED <<pipeline, pc, now, call, result>>
    /\ UNCHANGED chat

RequestsNext ==
    \/ Tick
    \/ StatusCommand
    \/ \E i \in 1 .. MaxRequests, bars \in RequestSeries, spot \in RequestSpots,
          expiration \in RequestExpirations :
            Analyze(i, bars, spot, expiration)

SpecRequests == InitOptions /\ [][RequestsNext]_vars

\* ------------------------------------------------------ chat front end

Tickers == {"SPY", "QQQ"}
\* regularMarketPrice, in cents
Quotes == {10, 1000}
\* the strikes of the chain the brokerage returns, in cents
ChainStrikes == {990, 1010}

\* str.lower() and str.upper() on the option types of the callback data
Lower(s) ==
    CASE s = "CALL" -> "call" [] s = "PUT" -> "put" [] s = "CALLS" -> "calls"
      [] s = "PUTS" -> "puts" [] OTHER -> s
Upper(s) ==
    CASE s = "call" -> "CALL" [] s = "put" -> "PUT" [] s = "calls" -> "CALLS"
      [] s = "puts" -> "PUTS" [] OTHER -> s

\* day + days_ahead with days_ahead = (4 - weekday) % 7, 7 when that is 0;
\* day 0 is a Monday
Friday(day) ==
    LET days_ahead == (4 - (day % 7)) % 7
    IN  day + (IF days_ahead = 0 THEN 7 ELSE days_ahead)

get_next_friday(clock) == Friday(clock \div 2)

\* the expirations yfinance lists for the ticker
Listed == {<<>>, <<4>>, <<11, 18>>}

\* the first four listed expirations, or the Fridays after each of the next
\* four weeks when none is listed
get_option_expirations(clock, options) ==
    IF options = <<>>
    THEN [i \in 1..4 |-> Friday(clock \div 2 + 7 * i)]
    ELSE SubSeq(options, 1, IF Len(options) < 4 THEN Len(options) ELSE 4)

\* an inline button: the fields of its callback_data between the underscores;
\* str(strike) and float(strike) give back the same float
Button(action, ticker, option_type, strike, expiration) ==
    [action |-> action, ticker |-> ticker, option_type |-> option_type,
     strike |-> strike, expiration |-> expiration]

Message(kind, buttons) == [kind |-> kind, buttons |-> buttons]

\* the arguments of confirm_trade and place_trade
Contract(ticker, option_type, strike, expiration) ==
    [ticker |-> ticker, option_type |-> option_type, strike |-> strike,
     expiration |-> expiration]

\* the keyboard of the /status reply
StatusKeyboard(ticker, direction) ==
    (IF direction = "CALL"
     THEN {Button("buy", ticker, "call", 0, 0), Button("view", ticker, "calls", 0, 0)}
     ELSE IF direction = "PUT"
     THEN {Button("buy", ticker, "put", 0, 0), Button("view", ticker, "puts", 0, 0)}
     ELSE {})
    \cup { Button(a, ticker, "", 0, 0) : a \in {"analyze", "chain", "alert", "risk"} }

\* the keyboard of the /options reply
ChainKeyboard(ticker, calls, puts, next_expiry) ==
    { Button("select", ticker, "call", strike, next_expiry) : strike \in calls }
    \cup { Button("select", ticker, "put", strike, next_expiry) : strike \in puts }
    \cup { Button("close", "", "chain", 0, 0) }

\* the keyboard of the /pick reply: the first button places the trade
PickKeyboard(ticker, direction, best_option, expiration) ==
    { Button("trade", ticker, Lower(best_option.type), best_option.strike, expiration),
      Button("alternatives", ticker, direction, 0, 0),
      Button("risk", ticker, best_option.type, best_option.strike, 0) }

\* the strike selection screen
show_buy_options(ticker, option_type, quote, clock) ==
    LET mults == IF option_type = "CALL" THEN {98, 100, 102} ELSE {102, 100, 98}
        strikes == UNION { RoundStrike(quote, mult) : mult \in mults }
    IN  Message("buy",
                { Button("select", ticker, Lower(option_type), strike,
                         get_next_friday(clock)) : strike \in strikes }
                \cup { Button("cancel", "", "buy", 0, 0) })

\* the confirmation screen
confirm_trade(ticker, option_type, strike, expiration) ==
    Message("confirm",
            { Button("trade", ticker, Lower(option_type), strike, expiration),
              Button("cancel", "", "trade", 0, 0) })

\* the message place_trade leaves: executed, failed or error, no keyboard
Placed == Message("placed", {})

\* /status TICKER: the analysis gives a direction
Status(ticker, direction) ==
    /\ Len(messages) < MaxMessages
    /\ messages' = Append(messages, Message("status", StatusKeyboard(ticker, direction)))
    /\ UNCHANGED <<pipeline, pc, engine, confirmed, placed>>

\* /options TICKER: buttons for the first calls and puts of the chain of the
\* first expiration
OptionsCommand(ticker, options, calls, puts) ==
    /\ Len(messages) < MaxMessages
    /\ LET next_expiry == get_option_expirations(now, options)[1]
       IN  messages' = Append(messages,
                              Message("chain", ChainKeyboard(ticker, calls, puts, next_expiry)))
    /\ UNCHANGED <<pipeline, pc, engine, confirmed, placed>>

\* /pick TICKER [EXPIRATION]: the best option is the first of option_picker;
\* the loading message is edited into the reply
PickCommand(ticker, direction, confidence, quote, atr, expiration) ==
    /\ Len(messages) < MaxMessages
    /\ \E options \in option_picker(direction, quote, expiration, 50, now),
          risk_levels \in calculate_tp_sl(quote, direction, atr, confidence, direction) :
          messages' = Append(messages,
                IF options.error # "" THEN Message("error", {})
                ELSE IF options.value = <<>> THEN Message("none", {})
                ELSE IF risk_levels.error # "" THEN Message("error", {})
                ELSE Message("pick",
                             PickKeyboard(ticker, direction, options.value[1], expiration)))
    /\ UNCHANGED <<pipeline, pc, engine, confirmed, placed>>

\* button_callback for button b of message i
ButtonCallback(i, b, quote) ==
    /\ i \in DOMAIN messages
    /\ b \in messages[i].buttons
    /\ CASE b.action = "buy" ->
              /\ messages' = [messages EXCEPT ![i] =
                    show_buy_options(b.ticker, Upper(b.option_type), quote, now)]
              /\ UNCHANGED <<confirmed, placed>>
         [] b.action = "select" ->
              /\ messages' = [messages EXCEPT ![i] =
                    confirm_trade(b.ticker, Upper(b.option_type), b.strike, b.expiration)]
              /\ confirmed' = confirmed \cup
                    {Contract(b.ticker, Upper(b.option_type), b.strike, b.expiration)}
              /\ UNCHANGED placed
         [] b.action = "trade" ->
              /\ messages' = [messages EXCEPT ![i] = Placed]
              /\ placed' = placed \cup
                    {Contract(b.ticker, Upper(b.option_type), b.strike, b.expiration)}
              /\ UNCHANGED confirmed
         [] b.action = "close" ->
              /\ messages' = [messages EXCEPT ![i] = Message("deleted", {})]
              /\ UNCHANGED <<confirmed, placed>>
         [] OTHER -> UNCHANGED <<messages, confirmed, placed>>
    /\ UNCHANGED <<pipeline, pc, engine>>

\* every button a message can carry
Buttons == UNION { messages[i].buttons : i \in DOMAIN messages }

BotNext ==
    \/ \E ticker \in Tickers, direction \in {"CALL", "PUT", "NEUTRAL"} :
          Status(ticker, direction)
    \/ \E ticker \in Tickers, options \in Listed, calls \in SUBSET ChainStrikes,
          puts \in SUBSET ChainStrikes :
            OptionsCommand(ticker, options, calls, puts)
    \/ \E ticker \in Tickers, direction \in {"CALL", "PUT", "NEUTRAL"},
          confidence \in Confidences, quote \in Quotes, atr \in Atrs,
          expiration \in {get_next_friday(now), 14} :
            PickCommand(ticker, direction, confidence, quote, atr, expiration)
    \/ \E i \in DOMAIN messages, b \in Buttons, quote \in Quotes :
          ButtonCallback(i, b, quote)

SpecBot == InitOptions /\ [][BotNext]_vars

\* ------------------------------------------------------------------ claims

SetMax(S) == CHOOSE x \in S : \A y \in S : y <= x
SetMin(S) == CHOOSE x \in S : \A y \in S : x <= y

\* the half-open hour window [start, end), wrapping across midnight when
\* start > end
InWindow(start, end, h) ==
    IF start <= end THEN start <= h /\ h < end ELSE h >= start \/ h < end

\* the window Config.SESSION_TIMES gives a session
ConfigWindow(s, h) ==
    CASE s = "asian" -> InWindow(asian_start, asian_end, h)
      [] s = "london" -> InWindow(london_start, london_end, h)
      [] s = "ny" -> InWindow(ny_start, ny_end, h)

\* the bars of df that fall in the window of session s
BarsIn(s) == { i \in DOMAIN df : ConfigWindow(s, df[i].hour) }

Analyzed == pc \in {"analyzed", "classified"}

\* C1: with low <= high in every bar, each session in the result map has
\* high = the maximum bar high and low = the minimum bar low over the bars of
\* the session, range = high - low, range >= 0 and mid = (high + low) / 2.
C1_RangeAndMid ==
    (Analyzed /\ \A i \in DOMAIN df : df[i].Low <= df[i].High) =>
        \A s \in DOMAIN session_data.sessions :
            LET st == session_data.sessions[s]
            IN  /\ BarsIn(s) # {}
                /\ st.high = SetMax({ df[i].High : i \in BarsIn(s) })
                /\ st.low = SetMin({ df[i].Low : i \in BarsIn(s) })
                /\ st.range = st.high - st.low
                /\ st.range >= 0
                /\ 2 * st.mid = st.high + st.low

\* a session whose high and low come from different bars
C1_Witness ==
    /\ pc = "analyzed"
    /\ "asian" \in DOMAIN session_data.sessions
    /\ Cardinality(BarsIn("asian")) = 2
    /\ session_data.sessions["asian"].range = 20
    /\ session_data.sessions["asian"].mid = 200

\* C2: a session key is in the result map exactly when at least one bar falls
\* in the session's window.
C2_PresentIffBars ==
    Analyzed =>
        \A s \in SessionNames :
            s \in DOMAIN session_data.sessions <=> BarsIn(s) # {}

\* a result map with the london session and without the other two
C2_Witness ==
    /\ pc = "analyzed"
    /\ Len(df) = 2
    /\ DOMAIN session_data.sessions = {"london"}

\* C3: a bar is counted in a session exactly when its hour lies in the
\* half-open window of Config.SESSION_TIMES, wrapping across midnight for the
\* asian session: asian h >= 20 or h < 2, london 3 <= h < 7, ny 8 <= h < 12.
C3_HourWindows ==
    /\ \A s \in SessionNames :
          Select(df, s) = SelectSeq(df, LAMBDA b : ConfigWindow(s, b.hour))
    /\ Select(df, "asian") = SelectSeq(df, LAMBDA b : b.hour >= 20 \/ b.hour < 2)
    /\ Select(df, "london") = SelectSeq(df, LAMBDA b : 3 <= b.hour /\ b.hour < 7)
    /\ Select(df, "ny") = SelectSeq(df, LAMBDA b : 8 <= b.hour /\ b.hour < 12)
    /\ Analyzed =>
          \A s \in DOMAIN session_data.sessions :
              /\ session_data.sessions[s].high
                    = SetMax({ df[i].High : i \in BarsIn(s) })
              /\ session_data.sessions[s].low
                    = SetMin({ df[i].Low : i \in BarsIn(s) })

\* an Asian session that spans midnight: one bar at 23h, one at 1h
C3_Witness ==
    /\ pc = "analyzed"
    /\ Len(df) = 2
    /\ df[1].hour = 23 /\ df[1].High = 200
    /\ df[2].hour = 1 /\ df[2].High = 210
    /\ DOMAIN session_data.sessions = {"asian"}
    /\ session_data.sessions["asian"].high = 210
    /\ session_data.sessions["asian"].low = 190

Classified == pc = "classified"

AsianPresent == "asian" \in DOMAIN session_data.sessions

\* C4: the label is NEUTRAL exactly when the mean of the factor scores lies in
\* [45, 55], CALL/BULLISH exactly when it is above 55, PUT/BEARISH exactly
\* when it is below 45; direction and trade_type name the same call.
C4_LabelByMean ==
    Classified =>
        LET n == Len(signal.confidence_factors)
            total == ColSum(signal.confidence_factors)
        IN  /\ n > 0
            /\ signal.direction \in {"CALL", "PUT", "NEUTRAL"}
            /\ signal.direction = "NEUTRAL" <=> (45 * n <= total /\ total <= 55 * n)
            /\ signal.direction = "CALL" <=> total > 55 * n
            /\ signal.direction = "PUT" <=> total < 45 * n
            /\ signal.direction = "CALL" <=> signal.trade_type = "BULLISH"
            /\ signal.direction = "PUT" <=> signal.trade_type = "BEARISH"
            /\ signal.direction = "NEUTRAL" <=> signal.trade_type = "NEUTRAL"

\* a mean of exactly 55 over five scores, labelled NEUTRAL
C4_Witness ==
    /\ Classified
    /\ Len(signal.confidence_factors) = 5
    /\ ColSum(signal.confidence_factors) = 55 * 5
    /\ signal.direction = "NEUTRAL"

\* C5: the returned confidence lies in [0, 100].
C5_ConfidenceRange ==
    Classified =>
        /\ signal.confidence >= 0
        /\ signal.confidence <= 100 * WeightScale

\* the highest score of every factor: confidence 73.25
C5_Witness ==
    /\ Classified
    /\ signal.confidence_factors = <<80, 70, 65, 70, 70>>
    /\ signal.confidence = 7325

PositionReasons ==
    {"Price above Asian high", "Price in upper Asian range",
     "Price below Asian low", "Price in lower Asian range"}
RsiReasons == {"RSI overbought", "RSI bullish", "RSI bearish", "RSI oversold"}
MacdReasons == {"MACD bullish", "MACD bearish"}
TrendReasons == {"Uptrend (SMA20 > SMA50)", "Downtrend (SMA20 < SMA50)"}
VolumeReasons == {"High volume", "Average volume", "Low volume"}

\* the table weight of the factor a reasoning string belongs to, in hundredths
OwnWeight(reason) ==
    CASE reason \in PositionReasons -> 40
      [] reason \in RsiReasons -> 20
      [] reason \in MacdReasons -> 15
      [] reason \in TrendReasons -> 15
      [] reason \in VolumeReasons -> 10

\* C6: the confidence is the sum over the scored factors of score times the
\* factor's own table weight, also when the position factor is skipped.
C6_OwnWeights ==
    Classified =>
        signal.confidence
            = ColSum([i \in DOMAIN signal.confidence_factors |->
                        signal.confidence_factors[i] * OwnWeight(signal.reasoning[i])])

\* C7: with the Asian session present the position factor is scored for every
\* spot price, with 80, 60, 20 or 40 by the first rule that applies.
C7_PositionAlwaysScored ==
    (Classified /\ AsianPresent) =>
        LET asian == session_data.sessions["asian"]
        IN  /\ Len(signal.reasoning) = 5
            /\ signal.reasoning[1] \in PositionReasons
            /\ signal.confidence_factors[1] =
                  (IF current_price > asian.high THEN 80
                   ELSE IF current_price > asian.mid THEN 60
                   ELSE IF current_price < asian.low THEN 20
                   ELSE 40)

\* the label the mean of a list of scores gives
LabelOf(scores) ==
    IF ColSum(scores) > 55 * Len(scores) THEN "CALL"
    ELSE IF ColSum(scores) < 45 * Len(scores) THEN "PUT"
    ELSE "NEUTRAL"

\* C8 as stated: without an Asian session only the position factor is skipped
\* and the label comes from the mean of the four remaining scores (RSI, MACD
\* histogram, trend, volume).
C8_FourFactorsRemain ==
    (Classified /\ ~AsianPresent) =>
        /\ Len(signal.confidence_factors) = 4
        /\ signal.reasoning[1] \in RsiReasons
        /\ signal.reasoning[2] \in MacdReasons
        /\ signal.reasoning[3] \in TrendReasons
        /\ signal.reasoning[4] \in VolumeReasons
        /\ signal.direction = LabelOf(signal.confidence_factors)

\* C8 amended: without an Asian session the position factor and the volume
\* factor are both skipped, the label comes from the mean of the three
\* remaining scores (RSI, MACD histogram, trend), and the result is a valid
\* label with a confidence in [0, 100].
C8_ThreeFactorsRemain ==
    (Classified /\ ~AsianPresent) =>
        LET m == session_data.momentum
            three == <<RsiFactor(m.rsi)[1].score, MacdFactor(m.macd_hist)[1].score,
                       TrendFactor(m.trend)[1].score>>
        IN  /\ signal.confidence_factors = three
            /\ signal.reasoning[1] \in RsiReasons
            /\ signal.reasoning[2] \in MacdReasons
            /\ signal.reasoning[3] \in TrendReasons
            /\ signal.direction = LabelOf(three)
            /\ signal.trade_type \in {"BULLISH", "BEARISH", "NEUTRAL"}
            /\ signal.confidence >= 0
            /\ signal.confidence <= 100 * WeightScale

\* RSI 75, MACD histogram negative, trend BEARISH, no Asian session
C8_Witness ==
    /\ Classified
    /\ ~AsianPresent
    /\ session_data.momentum = [rsi |-> Num(75), macd_hist |-> Num(-1), trend |-> "BEARISH"]
    /\ signal.confidence_factors = <<30, 35, 30>>
    /\ signal.direction = "PUT"

AboveAsianHigh ==
    /\ Classified
    /\ AsianPresent
    /\ current_price > session_data.sessions["asian"].high

\* C9 as stated: a spot above the Asian high is labelled BULLISH/CALL whatever
\* RSI, MACD histogram, trend and volume are.
C9_BreakoutAlwaysCall ==
    AboveAsianHigh => (signal.direction = "CALL" /\ signal.trade_type = "BULLISH")

\* C9 amended: with the spot above the Asian high the position factor scores
\* 80 and the label is BULLISH/CALL exactly when the other four scores sum to
\* more than 195 (mean of the five above 55); that is so whenever the MACD
\* histogram is positive and the trend is BULLISH.
C9_BreakoutCallIffMean ==
    AboveAsianHigh =>
        LET cf == signal.confidence_factors
            m == session_data.momentum
        IN  /\ Len(cf) = 5
            /\ cf[1] = 80
            /\ signal.direction = "CALL" <=> cf[2] + cf[3] + cf[4] + cf[5] > 195
            /\ signal.direction = "CALL" <=> signal.trade_type = "BULLISH"
            /\ (FGt(m.macd_hist, 0) /\ m.trend = "BULLISH") => signal.direction = "CALL"

\* spot 106 over an Asian high of 105 (low 95), overbought RSI and low volume,
\* positive MACD histogram and an uptrend: CALL with a mean of 57
C9_Witness ==
    /\ AboveAsianHigh
    /\ current_price = 212
    /\ session_data.sessions["asian"].high = 210
    /\ session_data.sessions["asian"].low = 190
    /\ signal.confidence_factors = <<80, 30, 65, 70, 40>>
    /\ signal.direction = "CALL"

\* C10: with the spot above the Asian high the confidence is at least 50.
C10_BreakoutConfidence ==
    AboveAsianHigh => signal.confidence >= 50 * WeightScale

\* the lowest confidence a breakout can get: 51.75
C10_Witness ==
    /\ AboveAsianHigh
    /\ signal.confidence_factors = <<80, 30, 35, 30, 40>>
    /\ signal.confidence = 5175

\* ---------------------------------------------- claims: undefined indicators

\* C17: when RSI or the MACD histogram is undefined (NaN) the classifier skips
\* the factor: the reasoning holds no RSI string, respectively no MACD string.
C17_UndefinedSkipped ==
    Classified =>
        LET m == session_data.momentum
            reasons == { signal.reasoning[i] : i \in DOMAIN signal.reasoning }
        IN  /\ m.rsi.nan => reasons \cap RsiReasons = {}
            /\ m.macd_hist.nan => reasons \cap MacdReasons = {}

\* ------------------------------------------------- claims: option selector

\* a call of option_picker has returned or raised
PickerCalled(direction) ==
    /\ pc = "returned"
    /\ call.fn = "option_picker"
    /\ call.direction = direction

PickerDone == PickerCalled("CALL") \/ PickerCalled("PUT")

\* the strikes of the returned candidates
ReturnedStrikes == { result.value[k].strike : k \in DOMAIN result.value }

\* C11: for a positive spot the three CALL strikes are distinct and all above
\* the spot, the three PUT strikes distinct and all below it.
C11_StrikesOrdered ==
    (PickerDone /\ call.spot > 0) =>
        /\ result.error = ""
        /\ Cardinality(ReturnedStrikes) = 3
        /\ \A s \in ReturnedStrikes :
              IF call.direction = "CALL" THEN s > call.spot ELSE s < call.spot

\* C12: for a positive spot two candidates are MODERATE and one is
\* AGGRESSIVE, and the AGGRESSIVE one is built from the 5% strike.
C12_TierByStrike ==
    (PickerDone /\ call.spot > 0) =>
        LET tier(t) == { k \in DOMAIN result.value : result.value[k].risk_level = t }
            far == IF call.direction = "CALL" THEN CallStrikes[3] ELSE PutStrikes[3]
        IN  /\ Cardinality(tier("MODERATE")) = 2
            /\ Cardinality(tier("AGGRESSIVE")) = 1
            /\ \A k \in tier("AGGRESSIVE") :
                  100 * result.value[k].strike - far * call.spot \in -50 .. 50

\* C13: the returned list is ordered by non-increasing |delta| and has at most
\* 3 entries, exactly 3 for CALL and PUT and none for any other direction; a
\* positive spot always gets a list.
C13_SortedByDelta ==
    (pc = "returned" /\ call.fn = "option_picker") =>
        /\ call.spot > 0 => result.error = ""
        /\ result.error = "" =>
              /\ Len(result.value) <= 3
              /\ Len(result.value) = (IF call.direction \in {"CALL", "PUT"} THEN 3 ELSE 0)
              /\ \A k \in 1 .. Len(result.value) - 1 :
                    Abs(result.value[k].delta) >= Abs(result.value[k + 1].delta)

\* a CALL list whose deltas differ: 0.50, 0.50, 0.35
C13_Witness ==
    /\ PickerCalled("CALL")
    /\ call.spot = 100
    /\ Len(result.value) = 3
    /\ result.value[1].delta = 50
    /\ result.value[2].delta = 50
    /\ result.value[3].delta = 35

WholeDays ==
    LET d == (2 * call.expiration - now) \div 2
    IN  IF d < 1 THEN 1 ELSE d

\* the claimed base theta, in thousandths
ClaimedBase == IF WholeDays < 7 THEN -50 ELSE IF WholeDays < 14 THEN -30 ELSE -20

\* C15 as stated: theta is exactly base * (1 + (ivRank - 50) / 100), the base
\* taken from the bucket of the whole days to expiry floored at 1.
C15_ThetaExact ==
    PickerDone =>
        \A k \in DOMAIN result.value :
            100 * result.value[k].theta = ClaimedBase * (50 + call.iv_rank)

\* C15 amended: theta is base * (1 + (ivRank - 50) / 100) rounded to 3
\* decimals, the base taken from the bucket of the whole days to expiry
\* floored at 1, so an expiration at most 3 days out is in the -0.05 bucket.
C15_ThetaRounded ==
    PickerDone =>
        \A k \in DOMAIN result.value :
            /\ 100 * result.value[k].theta - ClaimedBase * (50 + call.iv_rank)
                  \in -50 .. 50
            /\ WholeDays >= 1
            /\ 2 * call.expiration - now <= 2 * 3 => ClaimedBase = -50

\* ivRank 51, seven whole days out: -0.0303 is returned as -0.03
C15_Witness ==
    /\ PickerCalled("CALL")
    /\ result.error = ""
    /\ call.iv_rank = 51
    /\ call.expiration = 7
    /\ now = 0
    /\ result.value[1].theta = -30

\* ------------------------------------------------------ claims: risk levels

TpSlDone == pc = "returned" /\ call.fn = "calculate_tp_sl"

\* C16: for a positive spot calculate_tp_sl returns a stop_loss different from
\* the spot, so risk_reward is computed without a division by zero.
C16_StopNeverSpot ==
    (TpSlDone /\ call.spot > 0) =>
        /\ result.error = ""
        /\ result.value.stop_loss # call.spot
        /\ result.value.risk_reward.den > 0
        /\ result.value.risk_reward.num >= 0

\* C18: with a zero or negative spot option_picker (CALL or PUT) and
\* calculate_tp_sl end in an error and return nothing.
C18_NonPositiveSpotRaises ==
    ((PickerDone \/ TpSlDone) /\ call.spot <= 0) =>
        /\ result.error # ""
        /\ result.value = <<>>

\* what option_picker can return for CALL on the inputs of the PUT call
CallLists ==
    { r \in option_picker("CALL", call.spot, call.expiration, call.iv_rank, now) :
        r.error = "" }

Replied == { i \in DOMAIN log : log[i].stage = "replied" }

SameInputs(a, b) ==
    /\ a.bars = b.bars
    /\ a.spot = b.spot
    /\ a.expiration = b.expiration

SameResults(a, b) ==
    /\ a.direction = b.direction
    /\ a.confidence = b.confidence
    /\ a.options = b.options
    /\ a.levels = b.levels

C21_LevelsBracketSpot ==
    (TpSlDone /\ call.spot > 0) =>
        /\ result.error = ""
        /\ IF call.direction \in {"PUT", "BEARISH"}
           THEN /\ result.value.take_profit < call.spot
                /\ call.spot < result.value.stop_loss
           ELSE /\ result.value.stop_loss < call.spot
                /\ call.spot < result.value.take_profit

\* C22: the result of calculate_tp_sl is decided by spot, direction, confidence
\* and option_type: the call with any other atr can return the same
\* stop_loss, take_profit and risk_reward, or raise the same error.
C22_AtrIgnored ==
    TpSlDone =>
        \A atr \in Atrs :
            result \in calculate_tp_sl(call.spot, call.direction, atr, call.confidence,
                                       call.option_type)

\* a long call with an ATR of 1.50 at spot 10.00: stop 9.63, target 10.84
C22_Witness ==
    /\ TpSlDone
    /\ call.atr = 150
    /\ call.spot = 1000
    /\ call.direction = "CALL"
    /\ call.option_type = "CALL"
    /\ call.confidence = 5175
    /\ result.error = ""
    /\ result.value.stop_loss = 963
    /\ result.value.take_profit = 1084

\* ------------------------------------------------------ claims: chat flow

\* C23: place_trade is invoked for a contract only after confirm_trade has
\* shown the confirmation screen for the same ticker, option type, strike and
\* expiration, and a button with a 'trade_' callback is offered only on a
\* confirmation screen.
C23_TradeOnlyAfterConfirm ==
    /\ placed \subseteq confirmed
    /\ \A i \in DOMAIN messages :
          \A b \in messages[i].buttons :
              b.action = "trade" => messages[i].kind = "confirm"

====
